---- MODULE Spec2Model ----
(***************************************************************************)
(* Model of claude_draw's traversal-and-composition engine:                *)
(*   - Transform2D composition (models/transform.py),                      *)
(*   - RenderContext, the dual transform/state stack (visitors.py),        *)
(*   - BaseRenderer.render and the container visits (visitors.py),         *)
(*   - SVGRenderer and BoundingBoxCalculator (renderers.py).               *)
(*                                                                         *)
(* Numbers.  Transform coefficients and coordinates are small integers,    *)
(* on which the float arithmetic of the code is exact.  Opacities are      *)
(* fractions <<num, den>> in lowest terms (0.5 is <<1,2>>, 0.8 is          *)
(* <<4,5>>), multiplied as fractions.                                      *)
(***************************************************************************)
EXTENDS Integers, Sequences, FiniteSets, TLC

VARIABLES
    transform_stack,   \* RenderContext._transform_stack (of the renderer's context)
    state_stack,       \* RenderContext._state_stack
    lastOp,            \* the most recent RenderContext call made by a client, and its outcome
    kind,              \* the renderer's class: "svg", "bbox" or "mock"
    output,            \* BaseRenderer._output
    bbox,              \* BoundingBoxCalculator.min_x, min_y, max_x, max_y
    calls,             \* the lifecycle and visit calls of the render() in progress
    root,              \* the drawable given to render()
    callstack,         \* the container visits in progress, outermost first
    status,            \* where render() is
    result,            \* what render() returned
    canvas,            \* SVGRenderer.width, height
    renders,           \* the number of render() calls made on the renderer
    receiver,          \* the model object a client called a method on
    method,            \* that method and its arguments
    returned           \* what the call returned

ctxVars == <<transform_stack, state_stack, lastOp>>

renderVars == <<kind, output, bbox, calls, root, callstack, status, result, canvas, renders>>

libVars == <<receiver, method, returned>>

vars == <<transform_stack, state_stack, lastOp,
          kind, output, bbox, calls, root, callstack, status, result, canvas, renders,
          receiver, method, returned>>

\* ---------------------------------------------------------------- bounds
MaxStack == 3          \* a client pushes only while a stack is shorter than this
MaxDepth == 3          \* containers nested above the innermost node of a rendered tree
MaxChildren == 4       \* children of the root of a rendered tree
MaxRenders == 2        \* render() calls on one renderer

\* ------------------------------------------------------------ Transform2D
Transform2D(a, b, c, d, tx, ty) ==
    [a |-> a, b |-> b, c |-> c, d |-> d, tx |-> tx, ty |-> ty]

Identity == Transform2D(1, 0, 0, 1, 0, 0)

Translate(dx, dy) == Transform2D(1, 0, 0, 1, dx, dy)

Scale(sx, sy) == Transform2D(sx, 0, 0, sy, 0, 0)

\* the quarter turn Transform2D(a=0, b=1, c=-1, d=0)
Rotate90 == Transform2D(0, 1, -1, 0, 0, 0)

Mul_swapped(self, other) ==
    Transform2D(other.a * self.a + other.c * self.b,
                other.b * self.a + other.d * self.b,
                other.a * self.c + other.c * self.d,
                other.b * self.c + other.d * self.d,
                other.a * self.tx + other.c * self.ty + other.tx,
                other.b * self.tx + other.d * self.ty + other.ty)

Mul_c_from_a(self, other) ==
    Transform2D(self.a * other.a + self.c * other.b,
                self.b * other.a + self.d * other.b,
                self.a * other.c + self.c * other.a,
                self.b * other.c + self.d * other.d,
                self.a * other.tx + self.c * other.ty + self.tx,
                self.b * other.tx + self.d * other.ty + self.ty)

\* Transform2D.__mul__: self * other
Mul(self, other) ==
    Transform2D(self.a * other.a + self.c * other.b,
                self.b * other.a + self.d * other.b,
                self.a * other.c + self.c * other.d,
                self.b * other.c + self.d * other.d,
                self.a * other.tx + self.c * other.ty + self.tx,
                self.b * other.tx + self.d * other.ty + self.ty)

transform_point(self, p) ==
    [x |-> self.a * p.x + self.c * p.y + self.tx,
     y |-> self.b * p.x + self.d * p.y + self.ty]

\* on integer coefficients |v| < 1e-10 is v = 0
is_identity(self) ==
    /\ self.a - 1 = 0
    /\ self.b = 0
    /\ self.c = 0
    /\ self.d - 1 = 0
    /\ self.tx = 0
    /\ self.ty = 0

\* ------------------------------------------------------------- opacities
RECURSIVE Gcd(_, _)
Gcd(m, n) == IF n = 0 THEN m ELSE Gcd(n, m % n)

Frac(n, d) == IF n = 0 THEN <<0, 1>> ELSE <<n \div Gcd(n, d), d \div Gcd(n, d)>>

FMul(x, y) == Frac(x[1] * y[1], x[2] * y[2])

One == <<1, 1>>
Half == <<1, 2>>
FourFifths == <<4, 5>>
TwoFifths == <<2, 5>>

\* ------------------------------------------------------------ RenderState
\* The fields transform, fill, stroke and stroke_width of RenderState are
\* never overridden by any caller in the repository and keep their defaults;
\* the model carries the two fields that are.
RenderState(opacity, visible) == [opacity |-> opacity, visible |-> visible]

DefaultState == RenderState(One, TRUE)

\* keyword arguments: each key is absent ({}) or present ({value})
NoUpdates == [opacity |-> {}, visible |-> {}]

Updates(opacity, visible) == [opacity |-> opacity, visible |-> visible]

Only(s) == CHOOSE v \in s : TRUE

\* ----------------------------------------------------------- RenderContext
\* A context is the pair of stacks; a call returns the context after the
\* call and whether the call raised.
Ctx(ts, ss) == [ts |-> ts, ss |-> ss]

NewContext == Ctx(<<Identity>>, <<DefaultState>>)

Ok(ctx) == [ctx |-> ctx, raised |-> FALSE]

Raised(ctx) == [ctx |-> ctx, raised |-> TRUE]

Top(s) == s[Len(s)]

Front(s) == SubSeq(s, 1, Len(s) - 1)

current_transform(ctx) == Top(ctx.ts)

current_state(ctx) == Top(ctx.ss)

push_transform_replace(ctx, transform) ==
    Ctx(Append(ctx.ts, transform), ctx.ss)

push_transform(ctx, transform) ==
    Ctx(Append(ctx.ts, Mul(Top(ctx.ts), transform)), ctx.ss)

pop_transform_off_by_one(ctx) ==
    IF Len(ctx.ts) < 1
    THEN Raised(ctx)
    ELSE Ok(Ctx(Front(ctx.ts), ctx.ss))

pop_transform(ctx) ==
    IF Len(ctx.ts) <= 1
    THEN Raised(ctx)
    ELSE Ok(Ctx(Front(ctx.ts), ctx.ss))

push_state(ctx, updates) ==
    LET current == Top(ctx.ss)
        new_state == RenderState(
            IF updates.opacity = {} THEN current.opacity ELSE Only(updates.opacity),
            IF updates.visible = {} THEN current.visible ELSE Only(updates.visible))
    IN  Ctx(ctx.ts, Append(ctx.ss, new_state))

pop_state_off_by_one(ctx) ==
    IF Len(ctx.ss) < 1
    THEN Raised(ctx)
    ELSE Ok(Ctx(ctx.ts, Front(ctx.ss)))

pop_state(ctx) ==
    IF Len(ctx.ss) <= 1
    THEN Raised(ctx)
    ELSE Ok(Ctx(ctx.ts, Front(ctx.ss)))

push_unsynced(ctx, transform, updates) ==
    IF transform # {}
    THEN push_state(push_transform(ctx, Only(transform)), updates)
    ELSE push_state(ctx, updates)

\* push(transform=None, **state_updates); transform is {} (None) or {T}
push(ctx, transform, updates) ==
    IF transform # {}
    THEN push_state(push_transform(ctx, Only(transform)), updates)
    ELSE push_state(push_transform(ctx, Identity), updates)

\* pop(): pop_state() first, then pop_transform(); a raise of either leaves
\* what was done before it done
pop(ctx) ==
    LET s == pop_state(ctx)
    IN  IF s.raised THEN s ELSE pop_transform(s.ctx)

get_effective_opacity_top(ctx) == Top(ctx.ss).opacity

RECURSIVE OpacityLoop(_, _, _)
OpacityLoop(ss, i, opacity) ==
    IF i > Len(ss) THEN opacity ELSE OpacityLoop(ss, i + 1, FMul(opacity, ss[i].opacity))

get_effective_opacity(ctx) == OpacityLoop(ctx.ss, 1, One)

is_visible_top(ctx) == Top(ctx.ss).visible

is_visible(ctx) == \A i \in 1..Len(ctx.ss) : ctx.ss[i].visible

\* ------------------------------------------------------------ scene graph
\* A drawable is a record; a container's children are drawables again.
\* Every record has the same fields; a field a class does not declare holds
\* its default and is never read for that class (see OpacityOf, VisibleOf,
\* ZIndexOf).
PrimKinds == {"circle", "rectangle"}

ContainerKinds == {"group", "layer", "drawing"}

Drawable(k, transform, opacity, visible, z_index, children) ==
    [kind |-> k, transform |-> transform, opacity |-> opacity,
     visible |-> visible, z_index |-> z_index, children |-> children,
     size |-> <<800, 600>>, background_color |-> {}]

\* Circle(center=(10, 10), radius=5, ...)
Circle(transform, visible) == Drawable("circle", transform, One, visible, 0, <<>>)

\* Rectangle(x=0, y=0, width=10, height=20, ...)
Rectangle(transform, visible) == Drawable("rectangle", transform, One, visible, 0, <<>>)

Group(transform, z_index, children) ==
    Drawable("group", transform, One, TRUE, z_index, children)

Layer(transform, opacity, visible, z_index, children) ==
    Drawable("layer", transform, opacity, visible, z_index, children)

Drawing(transform, children) == Drawable("drawing", transform, One, TRUE, 0, children)

\* Drawing(width=..., height=..., ...)
SizedDrawing(size, children) == [Drawing(Identity, children) EXCEPT !.size = size]

CircleCenter == [x |-> 10, y |-> 10]

RectCorners == <<[x |-> 0, y |-> 0], [x |-> 10, y |-> 0], [x |-> 10, y |-> 20], [x |-> 0, y |-> 20]>>

\* getattr(child, 'z_index', 0): Group and Layer declare z_index
ZIndexOf(node) == IF node.kind \in {"group", "layer"} THEN node.z_index ELSE 0

\* getattr(group, 'opacity', 1.0): a Group declares no opacity
OpacityOf(node) == IF node.kind = "group" THEN One ELSE node.opacity

\* getattr(group, 'visible', True): a Group declares no visible
VisibleOf(node) == IF node.kind = "group" THEN TRUE ELSE node.visible

\* sorted(children, key=z_index) is stable: a child goes after every child
\* already placed whose key is not greater.  The result lists the children's
\* positions in the order of the visit.
RECURSIVE InsertByKey(_, _, _)
InsertByKey(order, j, children) ==
    IF order = <<>> THEN <<j>>
    ELSE IF ZIndexOf(children[Top(order)]) <= ZIndexOf(children[j])
         THEN Append(order, j)
         ELSE Append(InsertByKey(Front(order), j, children), Top(order))

RECURSIVE SortedPrefix(_, _)
SortedPrefix(children, n) ==
    IF n = 0 THEN <<>> ELSE InsertByKey(SortedPrefix(children, n - 1), n, children)

RECURSIVE InsertByKeyDescending(_, _, _)
InsertByKeyDescending(order, j, children) ==
    IF order = <<>> THEN <<j>>
    ELSE IF ZIndexOf(children[Top(order)]) >= ZIndexOf(children[j])
         THEN Append(order, j)
         ELSE Append(InsertByKeyDescending(Front(order), j, children), Top(order))

RECURSIVE SortedPrefixDescending(_, _)
SortedPrefixDescending(children, n) ==
    IF n = 0 THEN <<>>
    ELSE InsertByKeyDescending(SortedPrefixDescending(children, n - 1), n, children)

InsertionOrder(children) == [i \in 1..Len(children) |-> i]

sorted_descending(children) == SortedPrefixDescending(children, Len(children))

sorted_by_z_index(children) == SortedPrefix(children, Len(children))

\* Group.get_children_sorted
get_children_sorted(group) == sorted_by_z_index(group.children)

\* --------------------------------------------------------------- renderers
\* A renderer is the record of its fields:
\*   kind     its class, "svg" (SVGRenderer), "bbox" (BoundingBoxCalculator) or
\*            "mock" (a BaseRenderer subclass without hooks, whose primitive
\*            visits only record the call, and may raise)
\*   ctx      BaseRenderer.context
\*   output   BaseRenderer._output, one entry per emitted element
\*   bbox     None for (inf, inf, -inf, -inf), else <<min_x, min_y, max_x, max_y>>
\*   canvas   <<width, height>>
\*   calls    the begin_render, end_render and visit_* calls of this render()
\*   renders  the number of render() calls so far; every emitted element
\*            carries the number of the call that emitted it
None == <<>>

Kinds == {"svg", "bbox", "mock"}

Element(tag, path, transform, opacity, r) ==
    [tag |-> tag, path |-> path, transform |-> transform, opacity |-> opacity,
     size |-> r.canvas, render |-> r.renders]

emit(r, element) == [r EXCEPT !.output = Append(@, element)]

Log(r, ev, path) == [r EXCEPT !.calls = Append(@, [ev |-> ev, path |-> path])]

WithCtx(r, ctx) == [r EXCEPT !.ctx = ctx]

\* the result of a call on the renderer: the renderer after it and whether
\* the call raised
Done(r) == [r |-> r, raised |-> FALSE]

Threw(r) == [r |-> r, raised |-> TRUE]

\* begin_render of the three classes (the <?xml, <svg and <defs> strings are one element)
begin_render(r) ==
    LET r1 == Log(r, "begin", <<>>)
    IN  CASE r.kind = "svg" -> emit(r1, Element("svg_open", <<>>, Identity, One, r1))
          [] r.kind = "bbox" -> [r1 EXCEPT !.bbox = None]
          [] OTHER -> r1

\* end_render of the three classes (_defs_content is never filled)
end_render(r) ==
    LET r1 == Log(r, "end", <<>>)
    IN  IF r.kind = "svg"
        THEN emit(r1, Element("svg_close", <<>>, Identity, One, r1))
        ELSE r1

get_output(r) == r.output

\* SVGRenderer.pre_visit; BaseRenderer.pre_visit does nothing
pre_visit(r, node) ==
    IF r.kind = "svg" /\ ~is_identity(node.transform)
    THEN WithCtx(r, push_transform(r.ctx, node.transform))
    ELSE r

\* SVGRenderer.post_visit; BaseRenderer.post_visit does nothing
post_visit(r, node) ==
    IF r.kind = "svg" /\ ~is_identity(node.transform)
    THEN LET p == pop_transform(r.ctx)
         IN  [r |-> WithCtx(r, p.ctx), raised |-> p.raised]
    ELSE Done(r)

\* SVGRenderer._format_transform: the matrix written into the element
\* (no attribute is written for the identity)
format_transform(r) == current_transform(r.ctx)

\* the opacity of SVGRenderer._format_style_attributes
format_opacity(r, node) == FMul(get_effective_opacity(r.ctx), node.opacity)

Min(a, b) == IF a <= b THEN a ELSE b

Max(a, b) == IF a >= b THEN a ELSE b

\* BoundingBoxCalculator._update_bounds
update_bounds(r, x, y) ==
    IF r.bbox = None
    THEN [r EXCEPT !.bbox = <<x, y, x, y>>]
    ELSE [r EXCEPT !.bbox = <<Min(@[1], x), Min(@[2], y), Max(@[3], x), Max(@[4], y)>>]

\* BoundingBoxCalculator.get_bounding_box: None or (min_x, min_y, width, height)
get_bounding_box(r) ==
    IF r.bbox = None
    THEN None
    ELSE <<r.bbox[1], r.bbox[2], r.bbox[3] - r.bbox[1], r.bbox[4] - r.bbox[2]>>

RECURSIVE update_points(_, _, _)
update_points(r, points, i) ==
    IF i > Len(points) THEN r
    ELSE LET p == transform_point(current_transform(r.ctx), points[i])
         IN  update_points(update_bounds(r, p.x, p.y), points, i + 1)

CircleRadius == [x |-> 5, y |-> 5]

\* BoundingBoxCalculator.visit_circle
bbox_visit_circle(r, node) ==
    LET center == transform_point(current_transform(r.ctx), CircleCenter)
        lo == update_bounds(r, center.x - CircleRadius.x, center.y - CircleRadius.y)
    IN  update_bounds(lo, center.x + CircleRadius.x, center.y + CircleRadius.y)

\* BoundingBoxCalculator.visit_rectangle
bbox_visit_rectangle(r, node) == update_points(r, RectCorners, 1)

\* SVGRenderer.visit_circle
svg_visit_circle(r, node, path) ==
    LET r1 == pre_visit(r, node)
    IN  IF ~is_visible(r1.ctx)
        THEN post_visit(r1, node)
        ELSE post_visit(
                 emit(r1, Element("circle", path, format_transform(r1),
                                  format_opacity(r1, node), r1)),
                 node)

\* SVGRenderer.visit_rectangle
svg_visit_rectangle(r, node, path) ==
    LET r1 == pre_visit(r, node)
    IN  IF ~is_visible(r1.ctx)
        THEN Done(r1)
        ELSE post_visit(
                 emit(r1, Element("rect", path, format_transform(r1),
                                  format_opacity(r1, node), r1)),
                 node)

\* visit_circle, visit_rectangle of the renderer's class; fails says whether
\* the mock's visit raises
visit_primitive(r, node, path, fails) ==
    LET r0 == Log(r, "visit", path)
    IN  CASE r.kind = "svg" /\ node.kind = "circle" -> svg_visit_circle(r0, node, path)
          [] r.kind = "svg" /\ node.kind = "rectangle" -> svg_visit_rectangle(r0, node, path)
          [] r.kind = "bbox" /\ node.kind = "circle" -> Done(bbox_visit_circle(r0, node))
          [] r.kind = "bbox" /\ node.kind = "rectangle" -> Done(bbox_visit_rectangle(r0, node))
          [] OTHER -> IF fails THEN Threw(r0) ELSE Done(r0)

\* ------------------------------------------------------- container visits
\* A container visit runs in three parts: up to its loop over the children
\* (Entered: the renderer then, and the order of the children to visit;
\* Returned: the visit returned before its loop), one visit per child, and
\* from the end of the loop to its return.
Entered(r, order) == [r |-> r, descend |-> TRUE, order |-> order]

Returned(r) == [r |-> r, descend |-> FALSE, order |-> <<>>]

\* BaseRenderer.visit_group up to the loop
base_enter_group(r, group) ==
    LET r1 == pre_visit(r, group)
        r2 == WithCtx(r1, push(r1.ctx, {group.transform},
                               Updates({OpacityOf(group)}, {VisibleOf(group)})))
    IN  Entered(r2, get_children_sorted(group))

base_enter_layer_unchecked(r, layer) ==
    LET r1 == pre_visit(r, layer)
        r2 == WithCtx(r1, push(r1.ctx, {layer.transform},
                               Updates({layer.opacity}, {layer.visible})))
    IN  Entered(r2, sorted_by_z_index(layer.children))

\* BaseRenderer.visit_layer up to the loop; an invisible layer loops over nothing
base_enter_layer(r, layer) ==
    LET r1 == pre_visit(r, layer)
        r2 == WithCtx(r1, push(r1.ctx, {layer.transform},
                               Updates({layer.opacity}, {layer.visible})))
    IN  IF layer.visible /\ is_visible(r2.ctx)
        THEN Entered(r2, sorted_by_z_index(layer.children))
        ELSE Entered(r2, <<>>)

\* BaseRenderer.visit_drawing up to the loop
base_enter_drawing(r, drawing) ==
    LET r1 == pre_visit(r, drawing)
        r2 == WithCtx(r1, push(r1.ctx, {drawing.transform}, NoUpdates))
    IN  Entered(r2, InsertionOrder(drawing.children))

\* SVGRenderer.visit_group up to the loop of super().visit_group
svg_enter_group(r, group, path) ==
    LET r1 == pre_visit(r, group)
    IN  IF ~is_visible(r1.ctx)
        THEN Returned(r1)
        ELSE base_enter_group(
                 emit(r1, Element("g", path, format_transform(r1), One, r1)), group)

\* SVGRenderer.visit_layer up to the loop of super().visit_layer
svg_enter_layer(r, layer, path) ==
    LET r1 == pre_visit(r, layer)
    IN  IF ~layer.visible \/ ~is_visible(r1.ctx)
        THEN Returned(r1)
        ELSE base_enter_layer(
                 emit(r1, Element("g", path, format_transform(r1), layer.opacity, r1)), layer)

\* SVGRenderer.visit_drawing up to the loop of super().visit_drawing
svg_enter_drawing(r, drawing, path) ==
    LET r1 == pre_visit(r, drawing)
        r2 == [r1 EXCEPT !.canvas = drawing.size, !.output = <<>>]
        r3 == begin_render(r2)
        r4 == IF drawing.background_color # {}
              THEN emit(r3, Element("background", path, Identity, One, r3))
              ELSE r3
    IN  base_enter_drawing(r4, drawing)

\* visit_group, visit_layer, visit_drawing of the renderer's class, up to the loop
enter_container(r, node, path) ==
    LET r0 == Log(r, "visit", path)
    IN  CASE r.kind = "svg" /\ node.kind = "group" -> svg_enter_group(r0, node, path)
          [] r.kind = "svg" /\ node.kind = "layer" -> svg_enter_layer(r0, node, path)
          [] r.kind = "svg" /\ node.kind = "drawing" -> svg_enter_drawing(r0, node, path)
          [] r.kind # "svg" /\ node.kind = "group" -> base_enter_group(r0, node)
          [] r.kind # "svg" /\ node.kind = "layer" -> base_enter_layer(r0, node)
          [] OTHER -> base_enter_drawing(r0, node)

\* the finally block of the three BaseRenderer container visits
finally_pop(r) ==
    LET p == pop(r.ctx)
    IN  [r |-> WithCtx(r, p.ctx), raised |-> p.raised]

\* BaseRenderer.visit_group, visit_layer, visit_drawing after the loop
base_exit(r, node) ==
    LET f == finally_pop(r)
    IN  IF f.raised THEN f ELSE post_visit(f.r, node)

\* SVGRenderer.visit_group, visit_layer, visit_drawing after super() returned
svg_exit(r, node, path) ==
    LET b == base_exit(r, node)
    IN  IF b.raised THEN b
        ELSE IF node.kind = "drawing" THEN post_visit(b.r, node)
        ELSE post_visit(emit(b.r, Element("g_close", path, Identity, One, b.r)), node)

exit_container(r, node, path) ==
    IF r.kind = "svg" THEN svg_exit(r, node, path) ELSE base_exit(r, node)

\* the loop of visit_group asks is_visible() before each child; the loops of
\* visit_layer and visit_drawing do not
loop_visits_child(r, node) == node.kind # "group" \/ is_visible(r.ctx)

\* child.accept(self), or root.accept(self): the visit of a node up to its
\* return or, for a container, up to its loop
accept(r, node, path, fails) ==
    IF node.kind \in PrimKinds
    THEN LET v == visit_primitive(r, node, path, fails)
         IN  [r |-> v.r, raised |-> v.raised, descend |-> FALSE, order |-> <<>>]
    ELSE LET e == enter_container(r, node, path)
         IN  [r |-> e.r, raised |-> FALSE, descend |-> e.descend, order |-> e.order]

render_begin_keeps_output(r) ==
    begin_render(Log([r EXCEPT !.calls = <<>>, !.renders = @ + 1], "clear", <<>>))

\* BaseRenderer.render up to drawable.accept(self)
render_begin(r) ==
    begin_render(Log([r EXCEPT !.output = <<>>, !.calls = <<>>, !.renders = @ + 1],
                     "clear", <<>>))

render_finally_skipped(r) == r

\* the finally block of BaseRenderer.render
render_finally(r) == end_render(r)


\* ------------------------------------------------- RenderContext's clients
\* A client holding a RenderContext calls its six operations in any order,
\* with arguments from these sets.
PushTransforms == {Translate(20, 0), Scale(2, 2), Rotate90}

Opacities == {One, Half, FourFifths}

OptTransform == {{}} \cup {{t} : t \in PushTransforms}

UpdateSet == {Updates(o, v) : o \in {{}} \cup {{x} : x \in Opacities},
                              v \in {{}, {TRUE}, {FALSE}}}

theCtx == Ctx(transform_stack, state_stack)

Call(op, transform, updates, raised) ==
    [op |-> op, transform |-> transform, updates |-> updates, raised |-> raised]

SetCtx(ctx) ==
    /\ transform_stack' = ctx.ts
    /\ state_stack' = ctx.ss

CtxInit ==
    /\ transform_stack = NewContext.ts
    /\ state_stack = NewContext.ss
    /\ lastOp = Call("init", {}, NoUpdates, FALSE)

\* no method of a model object has been called
LibIdle ==
    /\ receiver = None
    /\ method = None
    /\ returned = None

\* a renderer that has rendered nothing yet
RenderIdle ==
    /\ kind = "svg"
    /\ output = <<>>
    /\ bbox = None
    /\ calls = <<>>
    /\ root = None
    /\ callstack = <<>>
    /\ status = "idle"
    /\ result = None
    /\ canvas = <<800, 600>>
    /\ renders = 0

DoPush ==
    \E t \in OptTransform, u \in UpdateSet :
        /\ Len(transform_stack) < MaxStack
        /\ Len(state_stack) < MaxStack
        /\ SetCtx(push(theCtx, t, u))
        /\ lastOp' = Call("push", t, u, FALSE)
        /\ UNCHANGED <<renderVars, libVars>>

DoPop ==
    LET r == pop(theCtx)
    IN  /\ SetCtx(r.ctx)
        /\ lastOp' = Call("pop", {}, NoUpdates, r.raised)
        /\ UNCHANGED <<renderVars, libVars>>

DoPushTransform ==
    \E t \in PushTransforms :
        /\ Len(transform_stack) < MaxStack
        /\ SetCtx(push_transform(theCtx, t))
        /\ lastOp' = Call("push_transform", {t}, NoUpdates, FALSE)
        /\ UNCHANGED <<renderVars, libVars>>

DoPopTransform ==
    LET r == pop_transform(theCtx)
    IN  /\ SetCtx(r.ctx)
        /\ lastOp' = Call("pop_transform", {}, NoUpdates, r.raised)
        /\ UNCHANGED <<renderVars, libVars>>

DoPushState ==
    \E u \in UpdateSet :
        /\ Len(state_stack) < MaxStack
        /\ SetCtx(push_state(theCtx, u))
        /\ lastOp' = Call("push_state", {}, u, FALSE)
        /\ UNCHANGED <<renderVars, libVars>>

DoPopState ==
    LET r == pop_state(theCtx)
    IN  /\ SetCtx(r.ctx)
        /\ lastOp' = Call("pop_state", {}, NoUpdates, r.raised)
        /\ UNCHANGED <<renderVars, libVars>>

CtxNext ==
    \/ DoPush
    \/ DoPop
    \/ DoPushTransform
    \/ DoPopTransform
    \/ DoPushState
    \/ DoPopState

\* a client that uses push() and pop() only
PushPopNext ==
    \/ DoPush
    \/ DoPop

CtxClientInit == CtxInit /\ RenderIdle /\ LibIdle

SpecCtx == CtxClientInit /\ [][CtxNext]_vars

SpecPushPop == CtxClientInit /\ [][PushPopNext]_vars

\* ------------------------------------------------------ the rendered trees
\* What render() is given: a chain of at most MaxDepth nested containers, each
\* with at most one child, around a primitive or an empty container (a
\* Drawing is the root), or a container with up to MaxChildren children that
\* are circles and empty layers of z_index 0, 1, 2.
Primitives ==
    {Circle(t, v) : t \in {Identity, Translate(20, 0)}, v \in BOOLEAN}
        \cup {Rectangle(t, v) : t \in {Identity, Translate(20, 0)}, v \in BOOLEAN}

NoneOrOne(S) == {<<>>} \cup {<<x>> : x \in S}

InnerContainers(S) ==
    {Group(t, 0, c) : t \in {Identity, Scale(2, 2)}, c \in S}
        \cup {Layer(Identity, o, TRUE, 0, c) : o \in {One, Half}, c \in S}
        \cup {Layer(Identity, One, FALSE, 0, c) : c \in S}

RECURSIVE Chains(_)
Chains(d) ==
    IF d = 0 THEN Primitives
    ELSE Primitives \cup InnerContainers(NoneOrOne(Chains(d - 1)))

ChainTrees ==
    Chains(MaxDepth)
        \cup {Drawing(Identity, c) : c \in NoneOrOne(Chains(MaxDepth - 1))}

Siblings == {Circle(Identity, TRUE)} \cup {Layer(Identity, One, TRUE, z, <<>>) : z \in 0..2}

RECURSIVE SeqsUpTo(_, _)
SeqsUpTo(S, n) ==
    IF n = 0 THEN {<<>>}
    ELSE LET shorter == SeqsUpTo(S, n - 1)
         IN  shorter \cup {Append(q, x) : q \in {t \in shorter : Len(t) = n - 1}, x \in S}

WideTrees ==
    LET cs == SeqsUpTo(Siblings, MaxChildren)
    IN  {Group(Identity, 0, c) : c \in cs}
            \cup {Layer(Identity, One, TRUE, 0, c) : c \in cs}
            \cup {Drawing(Identity, c) : c \in cs}

\* a Drawing of another size than the renderer's canvas, and a hidden Layer
\* with a transform of its own
OtherTrees ==
    {SizedDrawing(<<400, 300>>, c) : c \in NoneOrOne({Circle(Identity, TRUE)})}
        \cup {Layer(Translate(20, 0), One, FALSE, 0, <<>>)}

Trees == ChainTrees \cup WideTrees \cup OtherTrees

\* ------------------------------------------------------------------ render
theRenderer ==
    [kind |-> kind, ctx |-> theCtx, output |-> output, bbox |-> bbox,
     canvas |-> canvas, calls |-> calls, renders |-> renders]

SetRenderer(r) ==
    /\ SetCtx(r.ctx)
    /\ output' = r.output
    /\ bbox' = r.bbox
    /\ canvas' = r.canvas
    /\ calls' = r.calls
    /\ renders' = r.renders
    /\ UNCHANGED <<kind, lastOp, libVars>>

Frame(node, path, order) == [node |-> node, path |-> path, order |-> order, i |-> 1]

\* a renderer of one of the three classes, fresh from its constructor
RenderInit ==
    /\ CtxInit
    /\ LibIdle
    /\ kind \in Kinds
    /\ output = <<>>
    /\ bbox = None
    /\ canvas = <<800, 600>>
    /\ calls = <<>>
    /\ root = None
    /\ callstack = <<>>
    /\ status = "idle"
    /\ result = None
    /\ renders = 0

\* render(drawable) is called: the buffer is cleared and begin_render() runs.
\* Neither reads the drawable, which VisitRoot draws from Trees.
Render ==
    /\ status \in {"idle", "returned", "raised"}
    /\ renders < MaxRenders
    /\ SetRenderer(render_begin(theRenderer))
    /\ root' = None
    /\ callstack' = <<>>
    /\ status' = "begun"
    /\ result' = None

\* the outcome of an accept(): the visit returned, raised, or is at its loop
AfterAccept(a, node, path, outer) ==
    /\ SetRenderer(a.r)
    /\ callstack' = IF a.descend THEN Append(outer, Frame(node, path, a.order)) ELSE outer
    /\ status' = IF a.raised THEN "unwinding" ELSE "running"
    /\ result' = result

MayFail(node) == IF kind = "mock" /\ node.kind \in PrimKinds THEN BOOLEAN ELSE {FALSE}

\* drawable.accept(self) in render()
VisitRoot ==
    /\ status = "begun"
    /\ \E tree \in Trees, fails \in BOOLEAN :
           /\ fails \in MayFail(tree)
           /\ root' = tree
           /\ AfterAccept(accept(theRenderer, tree, <<>>, fails), tree, <<>>, callstack)

Advanced(stack) == [stack EXCEPT ![Len(stack)].i = @ + 1]

NextChild(frame) == frame.node.children[frame.order[frame.i]]

\* the loop of a container visit reaches a child: it dispatches to it, or
\* (in visit_group, when is_visible() is false) passes over it
VisitChild ==
    /\ status = "running"
    /\ callstack # <<>>
    /\ LET frame == Top(callstack)
       IN  /\ frame.i <= Len(frame.order)
           /\ IF loop_visits_child(theRenderer, frame.node)
              THEN \E fails \in MayFail(NextChild(frame)) :
                       AfterAccept(accept(theRenderer, NextChild(frame),
                                          Append(frame.path, frame.order[frame.i]), fails),
                                   NextChild(frame),
                                   Append(frame.path, frame.order[frame.i]),
                                   Advanced(callstack))
              ELSE /\ callstack' = Advanced(callstack)
                   /\ UNCHANGED <<transform_stack, state_stack, lastOp, kind, output, libVars,
                                  bbox, calls, status, result, canvas, renders>>
    /\ root' = root

\* the loop of a container visit is over: the finally block, the hooks and the return
ExitVisit ==
    /\ status = "running"
    /\ callstack # <<>>
    /\ LET frame == Top(callstack)
           x == exit_container(theRenderer, frame.node, frame.path)
       IN  /\ frame.i > Len(frame.order)
           /\ SetRenderer(x.r)
           /\ status' = IF x.raised THEN "unwinding" ELSE "running"
    /\ callstack' = Front(callstack)
    /\ UNCHANGED <<root, result>>

\* an exception leaves a container visit through its finally block
Unwind ==
    /\ status = "unwinding"
    /\ callstack # <<>>
    /\ SetRenderer(finally_pop(theRenderer).r)
    /\ callstack' = Front(callstack)
    /\ UNCHANGED <<root, status, result>>

\* accept() returned: end_render() and return self.get_output()
Finish ==
    /\ status = "running"
    /\ callstack = <<>>
    /\ LET r == render_finally(theRenderer)
       IN  /\ SetRenderer(r)
           /\ result' = get_output(r)
    /\ status' = "returned"
    /\ UNCHANGED <<root, callstack>>

\* accept() raised: end_render() in the finally block, then the exception
\* reaches the caller of render()
Propagate ==
    /\ status = "unwinding"
    /\ callstack = <<>>
    /\ SetRenderer(render_finally(theRenderer))
    /\ status' = "raised"
    /\ UNCHANGED <<root, callstack, result>>

RenderNext ==
    \/ Render
    \/ VisitRoot
    \/ VisitChild
    \/ ExitVisit
    \/ Unwind
    \/ Finish
    \/ Propagate

Spec == RenderInit /\ [][RenderNext]_vars

\* ===================================================== RenderContext claims
PopOps == {"pop", "pop_transform", "pop_state"}

OnlyBase ==
    /\ Len(transform_stack) = 1
    /\ Len(state_stack) = 1

\* C1: in a RenderContext used through push() and pop() alone, the transform
\* stack and the state stack have the same length in every state.  (A pop()
\* on the base frame raises in pop_state() before anything is removed, so the
\* statement needs no exception for underflowing runs.)
C1_StacksSameLength == Len(transform_stack) = Len(state_stack)

C1_Witness ==
    /\ lastOp.op = "pop"
    /\ ~lastOp.raised
    /\ Len(transform_stack) = 2
    /\ Len(state_stack) = 2

BaseFrameKept ==
    /\ Len(transform_stack) >= 1
    /\ Len(state_stack) >= 1
    /\ transform_stack[1] = Identity
    /\ state_stack[1] = RenderState(One, TRUE)

PopAtBaseRaises ==
    (OnlyBase /\ lastOp'.op \in PopOps) =>
        /\ lastOp'.raised
        /\ transform_stack' = transform_stack
        /\ state_stack' = state_stack

\* C2: pop(), pop_transform() and pop_state() called while both stacks hold
\* only the base frame raise and leave both stacks as they are; whatever the
\* six operations do, neither stack becomes empty and the bottom frames stay
\* the identity transform and the default state (opacity 1, visible).
C2_BaseFrameProtected == []BaseFrameKept /\ [][PopAtBaseRaises]_vars

C2_Witness ==
    /\ OnlyBase
    /\ lastOp.op \in PopOps
    /\ lastOp.raised

OpacityBase ==
    state_stack = <<DefaultState>> => get_effective_opacity(theCtx) = One

OpacityExample ==
    (/\ Len(state_stack) = 3
     /\ state_stack[1].opacity = One
     /\ state_stack[2].opacity = Half
     /\ state_stack[3].opacity = FourFifths)
        => get_effective_opacity(theCtx) = TwoFifths

\* what one call does to the effective opacity: a pushed frame multiplies it
\* by the frame's opacity, a popped frame takes its factor out again
OpacityStep ==
    LET before == get_effective_opacity(theCtx)
        after == get_effective_opacity(Ctx(transform_stack', state_stack'))
    IN  /\ Len(state_stack') = Len(state_stack) + 1 =>
                /\ Front(state_stack') = state_stack
                /\ after = FMul(before, Top(state_stack').opacity)
        /\ Len(state_stack') = Len(state_stack) - 1 =>
                /\ state_stack' = Front(state_stack)
                /\ before = FMul(after, Top(state_stack).opacity)
        /\ Len(state_stack') = Len(state_stack) => after = before

\* C3: get_effective_opacity() is the product of the opacity of every frame
\* on the state stack: it is 1 on the base frame, every pushed frame
\* multiplies it by that frame's opacity and every pop divides that factor
\* out; frames of opacity 0.5 then 0.8 give 0.4.
C3_OpacityIsProduct == [](OpacityBase /\ OpacityExample) /\ [][OpacityStep]_vars

C3_Witness ==
    /\ Len(state_stack) = 2
    /\ state_stack[2].opacity = Half
    /\ lastOp.op = "pop_state"
    /\ ~lastOp.raised
    /\ get_effective_opacity(theCtx) = Half

VisibleBase ==
    state_stack = <<DefaultState>> => is_visible(theCtx)

VisibleStep ==
    LET before == is_visible(theCtx)
        after == is_visible(Ctx(transform_stack', state_stack'))
    IN  /\ Len(state_stack') = Len(state_stack) + 1 =>
                /\ Front(state_stack') = state_stack
                /\ after <=> (before /\ Top(state_stack').visible)
        /\ Len(state_stack') = Len(state_stack) - 1 =>
                /\ state_stack' = Front(state_stack)
                /\ before <=> (after /\ Top(state_stack).visible)
        /\ Len(state_stack') = Len(state_stack) => (after <=> before)

\* C4: is_visible() is the conjunction of visible over every frame of the
\* state stack: true on the base frame; a push leaves it false when it was
\* false (whatever the pushed frame says) and otherwise makes it the pushed
\* frame's flag; a pop gives back the value from before the matching push.
C4_VisibleIsConjunction == []VisibleBase /\ [][VisibleStep]_vars

C4_Witness ==
    /\ Len(state_stack) = 3
    /\ ~state_stack[2].visible
    /\ state_stack[3].visible
    /\ lastOp.op \in {"push", "push_state"}
    /\ lastOp.updates.visible = {TRUE}
    /\ ~is_visible(theCtx)

PushComposes ==
    lastOp'.op = "push" =>
        /\ transform_stack' =
               Append(transform_stack,
                      IF lastOp'.transform = {}
                      THEN Top(transform_stack)
                      ELSE Mul(Top(transform_stack), Only(lastOp'.transform)))
        /\ Front(state_stack') = state_stack

PopRestores ==
    (lastOp'.op = "pop" /\ ~lastOp'.raised) =>
        /\ transform_stack' = Front(transform_stack)
        /\ state_stack' = Front(state_stack)

OrderedProduct ==
    /\ transform_stack[1] = Identity
    /\ \A i \in 1..(Len(transform_stack) - 1) :
           \E t \in PushTransforms \cup {Identity} :
               transform_stack[i + 1] = Mul(transform_stack[i], t)

\* C5: push(transform=T) puts previous * T on the transform stack and push()
\* without a transform puts the previous transform there again, each above
\* the frames already there; pop() removes exactly the top frame of both
\* stacks, so it restores the transform and state from before the matching
\* push, and every frame is the frame below it composed on the right with
\* the transform pushed there.
C5_PushComposesOnTheRight == []OrderedProduct /\ [][PushComposes /\ PopRestores]_vars

C5_Witness ==
    /\ lastOp.op = "push"
    /\ lastOp.transform = {Scale(2, 2)}
    /\ transform_stack = <<Identity, Translate(20, 0), Transform2D(2, 0, 0, 2, 20, 0)>>

\* ========================================================== render claims
RECURSIVE NodeAt(_, _)
NodeAt(tree, path) ==
    IF path = <<>> THEN tree ELSE NodeAt(tree.children[path[1]], Tail(path))

IsVisit(c) == c.ev = "visit"

CountOf(ev) == Cardinality({i \in 1..Len(calls) : calls[i].ev = ev})

\* the visits, in the order of the calls, of the children of the node at parent
ChildVisits(parent) ==
    SelectSeq(calls, LAMBDA c : IsVisit(c) /\ c.path # <<>> /\ Front(c.path) = parent)

ChildPositions(parent) ==
    [i \in 1..Len(ChildVisits(parent)) |-> Top(ChildVisits(parent)[i].path)]

ZOrderExample ==
    <<Layer(Identity, One, TRUE, 2, <<>>), Layer(Identity, One, TRUE, 1, <<>>),
      Layer(Identity, One, TRUE, 1, <<>>), Layer(Identity, One, TRUE, 0, <<>>)>>

\* C6: of two children of one Group or Layer that are both dispatched, the
\* one dispatched first has the smaller z_index (none counting as 0) or, with
\* equal z_index, was inserted first; the children [A(2), B(1), C(1), D(0)]
\* of a Group or Layer are visited in the order D, B, C, A.
C6_ChildrenInZOrder ==
    /\ \A a, b \in 1..Len(calls) :
           (/\ a < b
            /\ IsVisit(calls[a]) /\ IsVisit(calls[b])
            /\ calls[a].path # <<>> /\ calls[b].path # <<>>
            /\ Front(calls[a].path) = Front(calls[b].path)
            /\ NodeAt(root, Front(calls[a].path)).kind \in {"group", "layer"})
           => LET siblings == NodeAt(root, Front(calls[a].path)).children
                  ia == Top(calls[a].path)
                  ib == Top(calls[b].path)
                  za == IF siblings[ia].kind \in {"group", "layer"}
                        THEN siblings[ia].z_index ELSE 0
                  zb == IF siblings[ib].kind \in {"group", "layer"}
                        THEN siblings[ib].z_index ELSE 0
              IN  za < zb \/ (za = zb /\ ia < ib)
    /\ (/\ status = "returned"
        /\ root.kind \in {"group", "layer"}
        /\ root.children = ZOrderExample)
           => ChildPositions(<<>>) = <<4, 2, 3, 1>>

C6_Witness ==
    /\ status = "returned"
    /\ root.kind = "group"
    /\ root.children = ZOrderExample
    /\ ChildPositions(<<>>) = <<4, 2, 3, 1>>

RaisedRight ==
    /\ status = "unwinding" => CountOf("end") = 0
    /\ status = "raised" =>
           /\ CountOf("end") = 1
           /\ Len(calls) >= 2
           /\ Top(calls).ev = "end"
           /\ IsVisit(calls[Len(calls) - 1])
           /\ result = None

RaisePropagates == status = "unwinding" => status' \in {"unwinding", "raised"}

\* C7: when a visit raises during render(), end_render() has not run while
\* the exception unwinds the visits; it has run exactly once, as the call
\* right after the failing visit, when the exception reaches the caller of
\* render(); and the exception does reach the caller: render() returns no value.
C7_EndRenderOnError == []RaisedRight /\ [][RaisePropagates]_vars

C7_Witness ==
    /\ status = "raised"
    /\ root.kind = "drawing"
    /\ Len(calls[Len(calls) - 1].path) = MaxDepth
    /\ CountOf("end") = 1

\* C8: render() clears the buffer, then calls begin_render(), then dispatches
\* to the root, then calls end_render() (once, and nothing after it), then
\* returns the buffer: every visit lies after the first begin_render() and
\* before end_render(), and every element of the returned output was emitted
\* by this render() call.
C8_RenderLifecycle ==
    /\ status # "idle" =>
           /\ Len(calls) >= 2
           /\ calls[1].ev = "clear"
           /\ calls[2].ev = "begin"
           /\ CountOf("clear") = 1
    /\ status \in {"begun", "running", "unwinding"} => CountOf("end") = 0
    /\ status = "begun" => CountOf("visit") = 0
    /\ status \in {"running", "unwinding", "returned", "raised"} =>
           /\ Len(calls) >= 3
           /\ calls[3] = [ev |-> "visit", path |-> <<>>]
    /\ status \in {"returned", "raised"} =>
           /\ CountOf("end") = 1
           /\ Top(calls).ev = "end"
    /\ status = "returned" =>
           /\ result = output
           /\ \A i \in 1..Len(result) : result[i].render = renders
           /\ kind = "svg" =>
                  /\ Len(result) >= 2
                  /\ result[1].tag = "svg_open"
                  /\ Top(result).tag = "svg_close"

C8_Witness ==
    /\ status = "returned"
    /\ kind = "svg"
    /\ renders = 2
    /\ root.kind = "group"
    /\ Len(result) > 4

C9_Scenario ==
    Drawing(Identity,
            <<Layer(Identity, Half, TRUE, 0,
                    <<Group(Identity, 0, <<Circle(Translate(20, 0), TRUE)>>)>>)>>)

\* C9: BoundingBoxCalculator takes the circle's own transform into account:
\* rendering a Drawing holding a Layer of opacity 0.5 holding a Group holding
\* Circle(center=(10, 10), radius=5, transform=translate(20, 0)) gives the
\* box (25, 5, 10, 10).
C9_OwnTransformInBounds ==
    (/\ kind = "bbox"
     /\ status = "returned"
     /\ root = C9_Scenario)
        => get_bounding_box(theRenderer) = <<25, 5, 10, 10>>

\* the node at path, or one of its ancestors, is a Layer with visible=false
RECURSIVE InHiddenLayer(_, _)
InHiddenLayer(tree, path) ==
    \/ tree.kind = "layer" /\ ~tree.visible
    \/ path # <<>> /\ InHiddenLayer(tree.children[path[1]], Tail(path))

\* every primitive of the tree lies below a Layer with visible=false
RECURSIVE NothingShown(_)
NothingShown(tree) ==
    \/ tree.kind = "layer" /\ ~tree.visible
    \/ /\ tree.kind \notin PrimKinds
       /\ \A i \in 1..Len(tree.children) : NothingShown(tree.children[i])

\* C10: nothing in the subtree of a Layer with visible=false is emitted (no
\* shape and no <g>) and no primitive below it is visited, at any depth, by
\* any of the renderers; BoundingBoxCalculator.get_bounding_box() is None
\* after rendering a tree all of whose primitives lie below such a layer.
C10_HiddenLayerShowsNothing ==
    /\ \A i \in 1..Len(output) :
           output[i].tag \in {"circle", "rect", "g", "g_close"}
               => ~InHiddenLayer(root, output[i].path)
    /\ \A i \in 1..Len(calls) :
           (IsVisit(calls[i]) /\ NodeAt(root, calls[i].path).kind \in PrimKinds)
               => ~InHiddenLayer(root, calls[i].path)
    /\ (kind = "bbox" /\ status = "returned" /\ NothingShown(root))
           => get_bounding_box(theRenderer) = None

C10_Witness ==
    /\ kind = "bbox"
    /\ status = "returned"
    /\ root = Layer(Identity, One, FALSE, 0,
                    <<Group(Identity, 0, <<Circle(Identity, TRUE)>>)>>)
    /\ get_bounding_box(theRenderer) = None


\* every primitive of the tree has visible=false
RECURSIVE AllPrimitivesInvisible(_)
AllPrimitivesInvisible(tree) ==
    IF tree.kind \in PrimKinds
    THEN ~tree.visible
    ELSE \A i \in 1..Len(tree.children) : AllPrimitivesInvisible(tree.children[i])

\* C11: a primitive with visible=false is hidden: SVGRenderer emits no
\* element for it, and BoundingBoxCalculator folds none of its points into
\* the box (the box of a tree whose primitives all have visible=false is None).
C11_InvisiblePrimitiveHidden ==
    /\ \A i \in 1..Len(output) :
           output[i].tag \in {"circle", "rect"}
               => NodeAt(root, output[i].path).visible
    /\ (/\ kind = "bbox"
        /\ status = "returned"
        /\ AllPrimitivesInvisible(root))
           => get_bounding_box(theRenderer) = None

\* a renderer fresh from its constructor (default arguments)
FreshRenderer(k) ==
    [kind |-> k, ctx |-> NewContext, output |-> <<>>, bbox |-> None,
     canvas |-> <<800, 600>>, calls |-> <<>>, renders |-> 0]

\* node.accept(r) from its call to its return, and the loop of a container
\* visit from its i-th child on
RECURSIVE accept_through(_, _, _)
RECURSIVE loop_through(_, _, _, _, _)
accept_through(r, node, path) ==
    LET a == accept(r, node, path, FALSE)
    IN  IF a.raised \/ ~a.descend
        THEN a.r
        ELSE exit_container(loop_through(a.r, node, path, a.order, 1), node, path).r

loop_through(r, node, path, order, i) ==
    IF i > Len(order)
    THEN r
    ELSE loop_through(IF loop_visits_child(r, node)
                      THEN accept_through(r, node.children[order[i]],
                                          Append(path, order[i]))
                      ELSE r,
                      node, path, order, i + 1)

\* render(tree) on a fresh renderer of class k
render_on_fresh(k, tree) ==
    render_finally(accept_through(render_begin(FreshRenderer(k)), tree, <<>>))

\* the strings of an output, without the number of the call that emitted them
Contents(out) == [i \in 1..Len(out) |-> [out[i] EXCEPT !.render = 0]]

SameAsFresh ==
    LET fresh == render_on_fresh(kind, root)
    IN  /\ Contents(result) = Contents(get_output(fresh))
        /\ get_bounding_box(theRenderer) = get_bounding_box(fresh)

\* C12: what render(X) returns on an SVGRenderer or a BoundingBoxCalculator,
\* and get_bounding_box() after it, are what they are on a fresh instance,
\* whatever was rendered on the instance before.
C12_NoStateAcrossRenders ==
    (status = "returned" /\ kind \in {"svg", "bbox"}) => SameAsFresh

\* the first render() on an instance is the render on a fresh instance
C12_FirstRenderIsFresh ==
    (status = "returned" /\ kind \in {"svg", "bbox"} /\ renders = 1) => SameAsFresh

\* a BoundingBoxCalculator keeps nothing from an earlier render()
C12_BoundsNotPersisted ==
    (status = "returned" /\ kind = "bbox") => SameAsFresh

\* C13: the child layers of a Drawing are visited in ascending z_index order:
\* of two layers of one Drawing that are both visited, the one of the
\* higher z_index is visited later, whatever their order in children.
C13_DrawingLayersInZOrder ==
    \A a, b \in 1..Len(calls) :
        (/\ a < b
         /\ IsVisit(calls[a]) /\ IsVisit(calls[b])
         /\ calls[a].path # <<>> /\ calls[b].path # <<>>
         /\ Front(calls[a].path) = Front(calls[b].path)
         /\ NodeAt(root, Front(calls[a].path)).kind = "drawing"
         /\ NodeAt(root, calls[a].path).kind = "layer"
         /\ NodeAt(root, calls[b].path).kind = "layer")
        => NodeAt(root, calls[a].path).z_index <= NodeAt(root, calls[b].path).z_index

\* ================================================== the model classes
\* A client holds an immutable model object and calls a method on what the
\* last call returned (receiver, method, returned).
MaxCalls == 4          \* chained calls on one object

InvokedAs(name, args) == [name |-> name, args |-> args, n |-> method.n + 1]

LibCall(self, name, args, value) ==
    /\ receiver' = self
    /\ method' = InvokedAs(name, args)
    /\ returned' = value
    /\ UNCHANGED <<ctxVars, renderVars>>

\* Transform2D.rotate(angle) for an angle of q quarter turns, on which cos
\* and sin are 0, 1 or -1 (within the 1e-10 of Transform2D.__eq__)
Rotate(q) ==
    CASE q % 4 = 0 -> Transform2D(1, 0, 0, 1, 0, 0)
      [] q % 4 = 1 -> Transform2D(0, 1, -1, 0, 0, 0)
      [] q % 4 = 2 -> Transform2D(-1, 0, 0, -1, 0, 0)
      [] OTHER -> Transform2D(0, -1, 1, 0, 0, 0)

\* self.transform.translate(dx, dy), self.transform.rotate(angle): translate
\* and rotate are classmethods of Transform2D, which build a transform from
\* their arguments alone, also when called on an instance
Transform2D_translate(self, dx, dy) == Translate(dx, dy)

Transform2D_rotate(self, q) == Rotate(q)

\* Transform2D.scale, an instance method
Transform2D_scale(self, sx, sy) == Mul(self, Scale(sx, sy))

with_transform(self, transform) == [self EXCEPT !.transform = transform]

Drawable_translate(self, dx, dy) ==
    with_transform(self, Transform2D_translate(self.transform, dx, dy))

Drawable_rotate(self, q) == with_transform(self, Transform2D_rotate(self.transform, q))

\* Drawable.scale(sx, sy=None)
Drawable_scale(self, sx, sy) ==
    with_transform(self, Transform2D_scale(self.transform, sx,
                                           IF sy = {} THEN sx ELSE Only(sy)))

Offsets == {<<5, 0>>, <<0, 10>>}

Factors == {<<2, {}>>, <<2, {3}>>}

\* a shape fresh from its constructor
DrawableInit ==
    /\ CtxInit
    /\ RenderIdle
    /\ receiver = None
    /\ method = [name |-> "new", args |-> <<>>, n |-> 0]
    /\ returned \in {Circle(Identity, TRUE), Rectangle(Identity, TRUE)}

CallTranslate ==
    \E o \in Offsets :
        /\ method.n < MaxCalls
        /\ LibCall(returned, "translate", o, Drawable_translate(returned, o[1], o[2]))

CallRotate ==
    \E q \in 1..2 :
        /\ method.n < MaxCalls
        /\ LibCall(returned, "rotate", <<q>>, Drawable_rotate(returned, q))

CallScale ==
    \E f \in Factors :
        /\ method.n < MaxCalls
        /\ LibCall(returned, "scale", f, Drawable_scale(returned, f[1], f[2]))

DrawableNext ==
    \/ CallTranslate
    \/ CallRotate
    \/ CallScale

SpecDrawable == DrawableInit /\ [][DrawableNext]_vars

\* the transformation a call of translate, rotate or scale asks for
Requested(m) ==
    CASE m.name = "translate" -> Translate(m.args[1], m.args[2])
      [] m.name = "rotate" -> Rotate(m.args[1])
      [] OTHER -> Scale(m.args[1], IF m.args[2] = {} THEN m.args[1] ELSE Only(m.args[2]))

Accumulates ==
    /\ returned'.transform = Mul(receiver'.transform, Requested(method'))
    /\ with_transform(returned', receiver'.transform) = receiver'
    /\ receiver' = returned

\* C14: translate, rotate and scale return a new instance whose transform is
\* the receiver's transform composed with the requested translation, rotation
\* or scaling, every other field being the receiver's, and leave the receiver
\* as it was.
C14_TransformsAccumulate == [][Accumulates]_vars

\* ------------------------------------------------------------- containers
\* Drawable.with_id: model_copy(update={"id": new_id})
with_id(self, new_id) ==
    [f \in DOMAIN self \cup {"id"} |-> IF f = "id" THEN new_id ELSE self[f]]

\* Group.with_name, Layer.with_name: model_copy(update={"name": name})
with_name(self, name) ==
    [f \in DOMAIN self \cup {"name"} |-> IF f = "name" THEN name ELSE self[f]]

remove_child_first_match(self, child_id) ==
    LET hits == {i \in 1..Len(self.children) : self.children[i].id = child_id}
        first == CHOOSE i \in hits : \A j \in hits : i <= j
    IN  IF hits = {} THEN self
        ELSE [self EXCEPT !.children =
                 [k \in 1..(Len(@) - 1) |-> IF k < first THEN @[k] ELSE @[k + 1]]]

\* add_child of Group, Layer and Drawing
add_child(self, child) == [self EXCEPT !.children = Append(@, child)]

\* remove_child of Group, Layer and Drawing
remove_child(self, child_id) ==
    [self EXCEPT !.children = SelectSeq(@, LAMBDA child : child.id # child_id)]

\* the children a client adds: two of them share an id
Addable ==
    {with_id(Circle(Identity, TRUE), "a"),
     with_id(Rectangle(Translate(20, 0), TRUE), "a"),
     with_id(Circle(Identity, FALSE), "b")}

ChildIds == {"a", "b", "nonexistent"}

\* an empty Group, Layer or Drawing from its constructor
ContainerInit ==
    /\ CtxInit
    /\ RenderIdle
    /\ receiver = None
    /\ method = [name |-> "new", args |-> <<>>, n |-> 0]
    /\ returned \in
           {with_name(with_id(Group(Scale(2, 2), 1, <<>>), "g"), "header"),
            with_name(with_id(Layer(Identity, Half, FALSE, 2, <<>>), "l"), "Layer"),
            with_id(Drawing(Identity, <<>>), "d")}

CallAddChild ==
    \E child \in Addable :
        /\ method.n < MaxCalls
        /\ LibCall(returned, "add_child", <<child>>, add_child(returned, child))

CallRemoveChild ==
    \E child_id \in ChildIds :
        /\ method.n < MaxCalls
        /\ LibCall(returned, "remove_child", <<child_id>>, remove_child(returned, child_id))

ContainerNext ==
    \/ CallAddChild
    \/ CallRemoveChild

SpecContainer == ContainerInit /\ [][ContainerNext]_vars

\* the positions of the children of c whose id is not child_id
Kept(c, child_id) == {i \in 1..Len(c.children) : c.children[i].id # child_id}

\* the k-th smallest member of a set of positions
Nth(S, k) == CHOOSE i \in S : Cardinality({j \in S : j < i}) = k - 1

ChildrenChange ==
    /\ method'.name = "add_child" =>
           returned'.children = receiver'.children \o <<method'.args[1]>>
    /\ method'.name = "remove_child" =>
           LET kept == Kept(receiver', method'.args[1])
           IN  /\ Len(returned'.children) = Cardinality(kept)
               /\ \A k \in 1..Cardinality(kept) :
                      returned'.children[k] = receiver'.children[Nth(kept, k)]

OnlyChildrenChange ==
    /\ receiver' = returned
    /\ DOMAIN returned' = DOMAIN receiver'
    /\ \A f \in DOMAIN receiver' \ {"children"} : returned'[f] = receiver'[f]

\* C15: add_child returns a container whose children are the receiver's
\* followed by the new child; remove_child returns one whose children are
\* the receiver's children of another id, in their order (all of them when
\* no child has the id); the receiver is as it was and every field of the
\* result but children is the receiver's.
C15_AddRemoveChild == [][ChildrenChange /\ OnlyChildrenChange]_vars

C15_Witness ==
    /\ method.name = "remove_child"
    /\ method.args = <<"a">>
    /\ receiver.kind = "group"
    /\ Len(receiver.children) = 3
    /\ receiver.children[1].id = "a"
    /\ receiver.children[2].id = "b"
    /\ receiver.children[3].id = "a"
    /\ returned.children = <<receiver.children[2]>>
    /\ returned.name = "header"

\* ------------------------------------------------------------- get_bounds
BoundingBox(x, y, width, height) == [x |-> x, y |-> y, width |-> width, height |-> height]

\* Circle.get_bounds of Circle(center=(10, 10), radius=5): the box in the
\* circle's own coordinates
Circle_get_bounds(self) ==
    BoundingBox(CircleCenter.x - CircleRadius.x, CircleCenter.y - CircleRadius.y,
                2 * CircleRadius.x, 2 * CircleRadius.y)

\* Rectangle.get_bounds of Rectangle(x=0, y=0, width=10, height=20)
Rectangle_get_bounds(self) ==
    BoundingBox(RectCorners[1].x, RectCorners[1].y,
                RectCorners[3].x - RectCorners[1].x, RectCorners[3].y - RectCorners[1].y)

\* min and max of a non-empty set of numbers
MinOf(S) == CHOOSE m \in S : \A n \in S : m <= n

MaxOf(S) == CHOOSE m \in S : \A n \in S : m >= n

\* get_bounds of a drawable; for a container, Container.get_bounds
RECURSIVE get_bounds(_)
get_bounds(self) ==
    CASE self.kind = "circle" -> Circle_get_bounds(self)
      [] self.kind = "rectangle" -> Rectangle_get_bounds(self)
      [] self.children = <<>> -> BoundingBox(0, 0, 0, 0)
      [] OTHER ->
           LET child_bounds == {get_bounds(self.children[i]) : i \in 1..Len(self.children)}
               min_x == MinOf({b.x : b \in child_bounds})
               min_y == MinOf({b.y : b \in child_bounds})
               max_x == MaxOf({b.x + b.width : b \in child_bounds})
               max_y == MaxOf({b.y + b.height : b \in child_bounds})
           IN  BoundingBox(min_x, min_y, max_x - min_x, max_y - min_y)

\* a tree a client built
BoundsInit ==
    /\ CtxInit
    /\ RenderIdle
    /\ receiver = None
    /\ method = [name |-> "new", args |-> <<>>, n |-> 0]
    /\ returned \in Trees

CallGetBounds ==
    /\ method.name = "new"
    /\ LibCall(returned, "get_bounds", <<>>, get_bounds(returned))

BoundsNext ==
    \/ CallGetBounds

SpecBounds == BoundsInit /\ [][BoundsNext]_vars

\* the smallest box around the corners of box b moved by transform t
TransformedBox(t, b) ==
    LET corners == {transform_point(t, [x |-> b.x + dx, y |-> b.y + dy]) :
                        dx \in {0, b.width}, dy \in {0, b.height}}
        min_x == MinOf({p.x : p \in corners})
        min_y == MinOf({p.y : p \in corners})
    IN  BoundingBox(min_x, min_y,
                    MaxOf({p.x : p \in corners}) - min_x,
                    MaxOf({p.y : p \in corners}) - min_y)

\* the smallest box around a non-empty set of boxes
Enclosing(boxes) ==
    LET min_x == MinOf({b.x : b \in boxes})
        min_y == MinOf({b.y : b \in boxes})
    IN  BoundingBox(min_x, min_y,
                    MaxOf({b.x + b.width : b \in boxes}) - min_x,
                    MaxOf({b.y + b.height : b \in boxes}) - min_y)

\* the box of a node in its own coordinates, each child counted where its
\* transform puts it
RECURSIVE BoundsWithTransforms(_)
BoundsWithTransforms(node) ==
    CASE node.kind = "circle" -> Circle_get_bounds(node)
      [] node.kind = "rectangle" -> Rectangle_get_bounds(node)
      [] node.children = <<>> -> BoundingBox(0, 0, 0, 0)
      [] OTHER ->
           Enclosing({TransformedBox(node.children[i].transform,
                                     BoundsWithTransforms(node.children[i])) :
                          i \in 1..Len(node.children)})

\* C16: Container.get_bounds() is the smallest box around the boxes of all
\* the children, nested containers included, each child's box taken where
\* the child's transform puts it; it is the zero-size box at (0, 0) for an
\* empty container.
C16_ContainerBounds ==
    (method.name = "get_bounds" /\ receiver.kind \in ContainerKinds)
        => returned = BoundsWithTransforms(receiver)

\* without transforms on the children, Container.get_bounds() is that box
RECURSIVE NoTransformBelow(_)
NoTransformBelow(node) ==
    \A i \in 1..Len(node.children) :
        /\ is_identity(node.children[i].transform)
        /\ NoTransformBelow(node.children[i])

C16_BoundsWithoutTransforms ==
    (method.name = "get_bounds" /\ receiver.kind \in ContainerKinds
        /\ NoTransformBelow(receiver))
        => returned = BoundsWithTransforms(receiver)

\* ------------------------------------------------------------ BoundingBox
MaxCoord == 2          \* coordinates and sizes of the boxes range over 0..MaxCoord

\* a call on the object the client holds, and its return
PureCall(self, name, args, value) ==
    /\ receiver' = self
    /\ method' = [name |-> name, args |-> args, n |-> 1]
    /\ returned' = value
    /\ UNCHANGED <<ctxVars, renderVars>>

\* BoundingBox.empty()
empty == BoundingBox(0, 0, 0, 0)

is_empty(self) == self.width = 0 \/ self.height = 0

union_keeps_empty(self, other) ==
    LET left == Min(self.x, other.x)
        top == Min(self.y, other.y)
        right == Max(self.x + self.width, other.x + other.width)
        bottom == Max(self.y + self.height, other.y + other.height)
    IN  BoundingBox(left, top, right - left, bottom - top)

\* BoundingBox.union
union(self, other) ==
    IF is_empty(self) THEN other
    ELSE IF is_empty(other) THEN self
    ELSE LET left == Min(self.x, other.x)
             top == Min(self.y, other.y)
             right == Max(self.x + self.width, other.x + other.width)
             bottom == Max(self.y + self.height, other.y + other.height)
         IN  BoundingBox(left, top, right - left, bottom - top)

\* BoundingBox.intersects
intersects(self, other) ==
    ~(\/ self.x + self.width < other.x
      \/ other.x + other.width < self.x
      \/ self.y + self.height < other.y
      \/ other.y + other.height < self.y)

expand_to_point_from_empty(self, point) ==
    LET left == Min(self.x, point.x)
        top == Min(self.y, point.y)
        right == Max(self.x + self.width, point.x)
        bottom == Max(self.y + self.height, point.y)
    IN  BoundingBox(left, top, right - left, bottom - top)

\* BoundingBox.expand_to_point
expand_to_point(self, point) ==
    IF is_empty(self)
    THEN BoundingBox(point.x, point.y, 0, 0)
    ELSE LET left == Min(self.x, point.x)
             top == Min(self.y, point.y)
             right == Max(self.x + self.width, point.x)
             bottom == Max(self.y + self.height, point.y)
         IN  BoundingBox(left, top, right - left, bottom - top)

Boxes ==
    {BoundingBox(x, y, w, h) : x \in 0..MaxCoord, y \in 0..MaxCoord,
                               w \in 0..MaxCoord, h \in 0..MaxCoord}

Points == {[x |-> x, y |-> y] : x \in 0..(2 * MaxCoord), y \in 0..(2 * MaxCoord)}

\* a box a client holds
BoxInit ==
    /\ CtxInit
    /\ RenderIdle
    /\ receiver = None
    /\ method = [name |-> "new", args |-> <<>>, n |-> 0]
    /\ returned \in Boxes

CallUnion ==
    \E other \in Boxes :
        /\ method.name = "new"
        /\ PureCall(returned, "union", <<other>>, union(returned, other))

CallIntersects ==
    \E other \in Boxes :
        /\ method.name = "new"
        /\ PureCall(returned, "intersects", <<other>>, intersects(returned, other))

CallExpandToPoint ==
    \E point \in Points :
        /\ method.name = "new"
        /\ PureCall(returned, "expand_to_point", <<point>>, expand_to_point(returned, point))

BoxNext ==
    \/ CallUnion
    \/ CallIntersects
    \/ CallExpandToPoint

SpecBox == BoxInit /\ [][BoxNext]_vars

NonEmpty(b) == b.width > 0 /\ b.height > 0

\* C17: the union of BoundingBox.empty() with a non-empty box b, on either
\* side, is b; the union of two non-empty boxes spans, on each axis, from
\* the smaller of their low ends to the larger of their high ends.
C17_UnionIdentity ==
    method.name = "union" =>
        LET a == receiver
            b == method.args[1]
        IN  /\ (a = empty /\ NonEmpty(b)) => returned = b
            /\ (NonEmpty(a) /\ b = empty) => returned = a
            /\ (NonEmpty(a) /\ NonEmpty(b)) =>
                   /\ returned.x = Min(a.x, b.x)
                   /\ returned.y = Min(a.y, b.y)
                   /\ returned.x + returned.width = Max(a.x + a.width, b.x + b.width)
                   /\ returned.y + returned.height = Max(a.y + a.height, b.y + b.height)

C17_Witness ==
    /\ method.name = "union"
    /\ receiver = BoundingBox(1, 1, 2, 2)
    /\ method.args[1] = empty
    /\ returned = BoundingBox(1, 1, 2, 2)

\* the extents of a and b overlap on both axes, more than by touching
Overlap(a, b) ==
    /\ a.x < b.x + b.width /\ b.x < a.x + a.width
    /\ a.y < b.y + b.height /\ b.y < a.y + a.height

\* C18: for two boxes of positive width and height, intersects is true
\* exactly when the extents overlap on both axes, so not for boxes that only
\* touch along an edge or at a corner; and a.intersects(b) is b.intersects(a).
C18_TouchingIsNotIntersecting ==
    method.name = "intersects" =>
        /\ (NonEmpty(receiver) /\ NonEmpty(method.args[1]))
               => returned = Overlap(receiver, method.args[1])
        /\ returned = intersects(method.args[1], receiver)

\* intersects is symmetric
C18_IntersectsSymmetric ==
    method.name = "intersects" => returned = intersects(method.args[1], receiver)

ContainsPoint(b, p) ==
    /\ b.x <= p.x /\ p.x <= b.x + b.width
    /\ b.y <= p.y /\ p.y <= b.y + b.height

ContainsBox(b, c) ==
    /\ b.x <= c.x /\ c.x + c.width <= b.x + b.width
    /\ b.y <= c.y /\ c.y + c.height <= b.y + b.height

\* C19: expand_to_point(p) on a box of zero width or zero height is the
\* zero-size box at p; on another box it contains the box and p, each of
\* its sides lying on a side of the box or through p (there is no smaller
\* such box), and it is the box itself when p is inside.
C19_ExpandToPoint ==
    method.name = "expand_to_point" =>
        LET b == receiver
            p == method.args[1]
        IN  IF b.width = 0 \/ b.height = 0
            THEN returned = BoundingBox(p.x, p.y, 0, 0)
            ELSE /\ ContainsBox(returned, b)
                 /\ ContainsPoint(returned, p)
                 /\ returned.x \in {b.x, p.x}
                 /\ returned.y \in {b.y, p.y}
                 /\ returned.x + returned.width \in {b.x + b.width, p.x}
                 /\ returned.y + returned.height \in {b.y + b.height, p.y}
                 /\ ContainsPoint(b, p) => returned = b

C19_Witness ==
    /\ method.name = "expand_to_point"
    /\ receiver = BoundingBox(0, 0, 0, 2)
    /\ method.args[1] = [x |-> 1, y |-> 1]
    /\ returned = BoundingBox(1, 1, 0, 0)

\* ------------------------------------------------------ composing transforms
\* A client composes transforms by chained multiplication: t * u * v ...
Factors2D ==
    {Translate(20, 0), Scale(2, 2), Rotate90, Transform2D(1, 2, 3, 4, 5, 6),
     Transform2D(0, 1, 1, 0, 0, -10)}

\* a transform of determinant 0
Singular == Transform2D(1, 2, 2, 4, 0, 0)

Operands == Factors2D \cup {Identity, Singular}

SamplePoints == {[x |-> 0, y |-> 0], [x |-> 3, y |-> 7]}

\* exact quotients n/d in lowest terms with d > 0, for the floats that
\* inverse() computes from 1.0 / det
Abs(n) == IF n < 0 THEN -n ELSE n

Q(n, d) ==
    LET g == Gcd(Abs(n), Abs(d))
        s == IF d < 0 THEN -1 ELSE 1
    IN  <<(s * n) \div g, (s * d) \div g>>

QMul(x, y) == Q(x[1] * y[1], x[2] * y[2])

QAdd(x, y) == Q(x[1] * y[2] + y[1] * x[2], x[2] * y[2])

QPoint(p) == [x |-> Q(p.x, 1), y |-> Q(p.y, 1)]

determinant(self) == self.a * self.d - self.b * self.c

\* on integer coefficients abs(det) > 1e-10 is det # 0
is_invertible(self) == Abs(determinant(self)) > 0

ValueError == [raised |-> "ValueError"]

inverse_untranslated(self) ==
    LET det == determinant(self)
        inv_det == Q(1, det)
    IN  IF Abs(det) = 0
        THEN ValueError
        ELSE [a |-> QMul(Q(self.d, 1), inv_det),
              b |-> QMul(Q(-self.b, 1), inv_det),
              c |-> QMul(Q(-self.c, 1), inv_det),
              d |-> QMul(Q(self.a, 1), inv_det),
              tx |-> Q(-self.tx, 1),
              ty |-> Q(-self.ty, 1),
              quotients |-> TRUE]

\* Transform2D.inverse; the transform it returns is marked as holding quotients
inverse(self) ==
    LET det == determinant(self)
        inv_det == Q(1, det)
    IN  IF Abs(det) = 0
        THEN ValueError
        ELSE [a |-> QMul(Q(self.d, 1), inv_det),
              b |-> QMul(Q(-self.b, 1), inv_det),
              c |-> QMul(Q(-self.c, 1), inv_det),
              d |-> QMul(Q(self.a, 1), inv_det),
              tx |-> QMul(Q(self.c * self.ty - self.d * self.tx, 1), inv_det),
              ty |-> QMul(Q(self.b * self.tx - self.a * self.ty, 1), inv_det),
              quotients |-> TRUE]

\* Transform2D.transform_point on the coefficients of an inverse
transform_point_q(self, p) ==
    [x |-> QAdd(QAdd(QMul(self.a, Q(p.x, 1)), QMul(self.c, Q(p.y, 1))), self.tx),
     y |-> QAdd(QAdd(QMul(self.b, Q(p.x, 1)), QMul(self.d, Q(p.y, 1))), self.ty)]

TransformInit ==
    /\ CtxInit
    /\ RenderIdle
    /\ receiver = None
    /\ method = [name |-> "new", args |-> <<>>, n |-> 0]
    /\ returned \in Operands

\* returned * other
CallMul ==
    \E other \in Operands :
        /\ method.name \in {"new", "__mul__"}
        /\ method.n < MaxCalls
        /\ LibCall(returned, "__mul__", <<other>>, Mul(returned, other))

\* returned.inverse()
CallInverse ==
    /\ method.name \in {"new", "__mul__"}
    /\ LibCall(returned, "inverse", <<>>, inverse(returned))

\* returned.transform_point(p), on a transform or on the inverse of one,
\* which is also given the points the transform maps the sample points to
CallTransformPoint ==
    \/ \E p \in SamplePoints :
           /\ method.name \in {"new", "__mul__"}
           /\ LibCall(returned, "transform_point", <<p>>, transform_point(returned, p))
    \/ \E p \in SamplePoints :
           /\ method.name = "inverse"
           /\ returned # ValueError
           /\ LibCall(returned, "transform_point", <<transform_point(receiver, p)>>,
                      transform_point_q(returned, transform_point(receiver, p)))

TransformNext ==
    \/ CallMul
    \/ CallInverse
    \/ CallTransformPoint

SpecTransform == TransformInit /\ [][TransformNext]_vars

\* two multiplications in a row, (A * B) * C, give A * (B * C)
Reassociated ==
    (method.name = "__mul__" /\ method'.name = "__mul__")
        => returned' = Mul(receiver, Mul(method.args[1], method'.args[1]))

\* C20: composition is associative: (A * B) * C has the six coefficients
\* of A * (B * C).
C20_MulAssociative == [][Reassociated]_vars

C20_Witness ==
    /\ method.name = "__mul__"
    /\ method.n = 2
    /\ method.args[1] = Transform2D(1, 2, 3, 4, 5, 6)
    /\ receiver = Mul(Rotate90, Translate(20, 0))
    /\ returned = Mul(Rotate90, Mul(Translate(20, 0), Transform2D(1, 2, 3, 4, 5, 6)))
    /\ returned # Mul(Translate(20, 0), Mul(Rotate90, Transform2D(1, 2, 3, 4, 5, 6)))

\* a point is given to the product A * B right after the product was made
AppliesRightFirst ==
    (method.name = "__mul__" /\ method'.name = "transform_point")
        => returned' = transform_point(receiver,
                                       transform_point(method.args[1], method'.args[1]))

IdentityNeutral ==
    method.name = "__mul__" =>
        /\ receiver = Identity => returned = method.args[1]
        /\ method.args[1] = Identity => returned = receiver

\* C21: (A * B).transform_point(p) is A.transform_point(B.transform_point(p)),
\* the right operand applied first, and I * T = T = T * I.
C21_ProductAppliesRightFirst == []IdentityNeutral /\ [][AppliesRightFirst]_vars

C21_Witness ==
    /\ method.name = "transform_point"
    /\ DOMAIN receiver = DOMAIN Identity
    /\ receiver = Mul(Translate(20, 0), Scale(2, 2))
    /\ method.args[1] = [x |-> 3, y |-> 7]
    /\ returned = [x |-> 26, y |-> 14]
    /\ returned # transform_point(Scale(2, 2), transform_point(Translate(20, 0), method.args[1]))

InverseRaisesIfSingular ==
    method.name = "inverse" =>
        /\ determinant(receiver) = 0 => returned = ValueError
        /\ is_invertible(receiver) => returned # ValueError

\* T.inverse() is given T.transform_point(p)
RoundTrip ==
    (method.name = "inverse" /\ is_invertible(receiver)
        /\ method'.name = "transform_point")
        => \A p \in SamplePoints :
               method'.args[1] = transform_point(receiver, p) => returned' = QPoint(p)

\* C22: for an invertible T, T.inverse().transform_point(T.transform_point(p))
\* is p; for a T of determinant 0, inverse() raises and returns no transform.
C22_InverseRoundTrip == []InverseRaisesIfSingular /\ [][RoundTrip]_vars

C22_Witness ==
    /\ method.name = "transform_point"
    /\ method.n = 3
    /\ method.args[1] = [x |-> 26, y |-> 14]
    /\ receiver = inverse(Mul(Translate(20, 0), Scale(2, 2)))
    /\ receiver.a = <<1, 2>>
    /\ returned = QPoint([x |-> 3, y |-> 7])

C22_SingularWitness ==
    /\ method.name = "inverse"
    /\ receiver = Mul(Singular, Rotate90)
    /\ returned = ValueError

(***************************************************************************)
(* Serialization (serialization.py).  A Python object is a record with     *)
(* its class in `kind` and its identity, id(obj), in `addr`; the same      *)
(* object at two positions of a tree is the same record with the same      *)
(* addr.  A JSON object is a record without `kind`, keyed by field names   *)
(* and by the metadata keys.  json.dumps followed by json.loads gives the  *)
(* dictionary back for the values used here (strings, integers, booleans,  *)
(* lists, dictionaries with string keys).                                  *)
(***************************************************************************)
MaxItems == 2

MetaKeys == {"__type__", "__version__", "__id__", "__ref__"}

\* SerializationRegistry._class_registry after _register_core_types()
class_registry ==
    [t \in {"Circle", "Rectangle", "Line", "Ellipse", "Group", "Layer", "Drawing"} |->
        CASE t = "Circle" -> "circle"
          [] t = "Rectangle" -> "rectangle"
          [] t = "Line" -> "line"
          [] t = "Ellipse" -> "ellipse"
          [] t = "Group" -> "group"
          [] t = "Layer" -> "layer"
          [] t = "Drawing" -> "drawing"]

\* _class_registry.get(type_name): the class, or nothing
get_drawable_class(type_name) ==
    IF type_name \in DOMAIN class_registry THEN {class_registry[type_name]} ELSE {}

\* _reverse_registry[type(obj)]
get_type_discriminator(obj) ==
    CHOOSE t \in DOMAIN class_registry : class_registry[t] = obj.kind

\* f"obj_{counter}"
RefId(counter) == <<"obj", counter>>

\* the object placed at an address
At(addr, self) ==
    [f \in DOMAIN self \cup {"addr"} |-> IF f = "addr" THEN addr ELSE self[f]]

\* obj.__class__.model_fields
model_fields(obj) == DOMAIN obj \ {"kind", "addr"}

\* EnhancedJSONEncoder(): no object seen yet
EnhancedJSONEncoder == [object_refs |-> <<>>, ref_counter |-> 0]

RECURSIVE serialize_draw_model(_, _)
RECURSIVE serialize_items(_, _)

\* the list comprehension over a list field, item by item, sharing the encoder
serialize_items(items, enc) ==
    IF items = <<>>
    THEN [data |-> <<>>, enc |-> enc]
    ELSE LET first == serialize_draw_model(Head(items), enc)
             rest == serialize_items(Tail(items), first.enc)
         IN  [data |-> <<first.data>> \o rest.data, enc |-> rest.enc]

\* EnhancedJSONEncoder._serialize_draw_model on a Drawable
serialize_draw_model(obj, enc) ==
    IF obj.addr \in DOMAIN enc.object_refs
    THEN [data |-> ("__ref__" :> enc.object_refs[obj.addr]), enc |-> enc]
    ELSE LET ref_id == RefId(enc.ref_counter)
             seen == [object_refs |-> (obj.addr :> ref_id) @@ enc.object_refs,
                      ref_counter |-> enc.ref_counter + 1]
             items == serialize_items(obj.children, seen)
         IN  [data |->
                [f \in model_fields(obj) \cup {"__type__", "__version__", "__id__"} |->
                    CASE f = "children" -> items.data
                      [] f = "__type__" -> get_type_discriminator(obj)
                      [] f = "__version__" -> "1.0"
                      [] f = "__id__" -> ref_id
                      [] OTHER -> obj[f]],
              enc |-> items.enc]

dumps(data) == [json |-> data]

loads(text) == text.json

is_str(data) == DOMAIN data = {"json"}

\* serialize_drawable(obj)
serialize_drawable(obj) == dumps(serialize_draw_model(obj, EnhancedJSONEncoder).data)

TypeError == [raised |-> "TypeError"]

\* pydantic's ValidationError, a subclass of ValueError
ValidationError == [raised |-> "ValidationError"]

IsRaised(value) == "raised" \in DOMAIN value

IsValueError(value) == IsRaised(value) /\ value.raised \in {"ValueError", "ValidationError"}

IsDrawable(value) == "kind" \in DOMAIN value

\* the first exception raised while the items of a list were processed
FirstRaised(items) ==
    LET hits == {i \in 1..Len(items) : IsRaised(items[i])}
    IN  items[CHOOSE i \in hits : \A j \in hits : i <= j]

\* cls.model_validate(clean_data): children is List[Drawable], so every item
\* has to be a Drawable instance; a dictionary (extra="forbid", abstract
\* class) or None is rejected
model_validate(cls, clean_data) ==
    IF \E i \in 1..Len(clean_data.children) : ~IsDrawable(clean_data.children[i])
    THEN ValidationError
    ELSE [f \in DOMAIN clean_data \cup {"kind"} |->
            IF f = "kind" THEN cls ELSE clean_data[f]]

RECURSIVE deserialize_dict(_)

\* deserialize_drawable on a dictionary; of the fields only children holds
\* dictionaries
deserialize_dict(data) ==
    IF "__ref__" \in DOMAIN data THEN ValueError
    ELSE IF "__type__" \notin DOMAIN data THEN ValueError
    ELSE IF get_drawable_class(data["__type__"]) = {} THEN ValueError
    ELSE LET cls == Only(get_drawable_class(data["__type__"]))
             items == [i \in 1..Len(data.children) |->
                          IF "__type__" \in DOMAIN data.children[i]
                          THEN deserialize_dict(data.children[i])
                          ELSE data.children[i]]
             clean_data == [f \in DOMAIN data \ MetaKeys |->
                               IF f = "children" THEN items ELSE data[f]]
         IN  IF \E i \in 1..Len(items) : IsRaised(items[i])
             THEN FirstRaised(items)
             ELSE model_validate(cls, clean_data)

\* deserialize_drawable(data)
deserialize_drawable(data) ==
    deserialize_dict(IF is_str(data) THEN loads(data) ELSE data)

RECURSIVE deserialize_recursive(_, _)
RECURSIVE deserialize_recursive_items(_, _)

\* the list comprehension of _deserialize_recursive, sharing object_cache and
\* deferred_refs; it stops at the first exception
deserialize_recursive_items(items, refs) ==
    IF items = <<>>
    THEN [obj |-> <<>>, refs |-> refs]
    ELSE LET first == IF "__type__" \in DOMAIN Head(items)
                      THEN deserialize_recursive(Head(items), refs)
                      ELSE [obj |-> Head(items), refs |-> refs]
             rest == deserialize_recursive_items(Tail(items), first.refs)
         IN  IF IsRaised(first.obj) THEN [obj |-> <<first.obj>>, refs |-> first.refs]
             ELSE [obj |-> <<first.obj>> \o rest.obj, refs |-> rest.refs]

\* deserialize_with_references._deserialize_recursive
deserialize_recursive(obj_data, refs) ==
    IF "__ref__" \in DOMAIN obj_data
    THEN IF obj_data["__ref__"] \in DOMAIN refs.object_cache
         THEN [obj |-> refs.object_cache[obj_data["__ref__"]], refs |-> refs]
         ELSE [obj |-> None,
               refs |-> [refs EXCEPT !.deferred_refs = @ \cup {obj_data["__ref__"]}]]
    ELSE IF "__type__" \notin DOMAIN obj_data THEN [obj |-> ValueError, refs |-> refs]
    ELSE IF get_drawable_class(obj_data["__type__"]) = {}
         THEN [obj |-> ValueError, refs |-> refs]
    ELSE LET cls == Only(get_drawable_class(obj_data["__type__"]))
             items == deserialize_recursive_items(obj_data.children, refs)
             clean_data == [f \in DOMAIN obj_data \ MetaKeys |->
                               IF f = "children" THEN items.obj ELSE obj_data[f]]
             obj == model_validate(cls, clean_data)
         IN  IF \E i \in 1..Len(items.obj) : IsRaised(items.obj[i])
             THEN [obj |-> FirstRaised(items.obj), refs |-> items.refs]
             ELSE IF IsRaised(obj) THEN [obj |-> obj, refs |-> items.refs]
             ELSE IF "__id__" \in DOMAIN obj_data
                  THEN [obj |-> obj,
                        refs |-> [items.refs EXCEPT !.object_cache =
                                     (obj_data["__id__"] :> obj) @@ @]]
                  ELSE [obj |-> obj, refs |-> items.refs]

\* deserialize_with_references(data): first pass, then the check of the
\* deferred references
deserialize_with_references(data) ==
    LET first == deserialize_recursive(IF is_str(data) THEN loads(data) ELSE data,
                                       [object_cache |-> <<>>, deferred_refs |-> {}])
    IN  IF IsRaised(first.obj) THEN first.obj
        ELSE IF \E ref_id \in first.refs.deferred_refs :
                    ref_id \notin DOMAIN first.refs.object_cache
             THEN ValueError
             ELSE first.obj

\* Line(start=(0, 5), end=(10, 5), ...)
Line(transform, visible) == Drawable("line", transform, One, visible, 0, <<>>)

\* Ellipse(center=(10, 10), rx=5, ry=3, ...)
Ellipse(transform, visible) == Drawable("ellipse", transform, One, visible, 0, <<>>)

\* five primitive objects; the fifth is a second object equal to the first
Leaves ==
    {At(1, with_id(Circle(Identity, TRUE), "a")),
     At(2, with_id(Rectangle(Translate(20, 0), TRUE), "b")),
     At(3, with_id(Line(Identity, TRUE), "c")),
     At(4, with_id(Ellipse(Identity, FALSE), "d")),
     At(5, with_id(Circle(Identity, TRUE), "a"))}

SharedLeaves == {leaf \in Leaves : leaf.addr \in {1, 2}}

\* three groups, each an object of its own
InnerGroups ==
    {At(6 + Len(c) * c[Len(c)].addr, with_id(Group(Scale(2, 2), 0, c), "g")) :
        c \in {<<leaf>> : leaf \in SharedLeaves}}
        \cup {At(6, with_id(Group(Scale(2, 2), 0, <<>>), "g"))}

\* a primitive, or a Group, Layer or Drawing of up to MaxItems children, each
\* a primitive or a group; the same object may be put at several positions
SerialTrees ==
    Leaves \cup
    {At(0, with_id(k, "root")) :
        k \in UNION {{Group(Identity, 0, c), Layer(Identity, Half, TRUE, 1, c),
                      Drawing(Identity, c)} :
                        c \in SeqsUpTo(Leaves \cup InnerGroups, MaxItems)}}

Written(obj) == serialize_draw_model(obj, EnhancedJSONEncoder).data

with_children(data, items) == [data EXCEPT !.children = items]

\* dictionaries written by hand: a reference at the root, a reference to an
\* id no entry carries, references that also name a type, a missing and an
\* unknown type
DataInputs ==
    LET circle == Written(At(1, with_id(Circle(Identity, TRUE), "a")))
        group == Written(At(0, with_id(Group(Identity, 0, <<>>), "root")))
        typed(n) == ("__type__" :> "Circle") @@ ("__ref__" :> RefId(n))
    IN  {("__ref__" :> RefId(0)),
         with_children(group, <<("__ref__" :> RefId(7))>>),
         with_children(group, <<[circle EXCEPT !["__id__"] = RefId(1)], typed(1)>>),
         with_children(group, <<typed(1), [circle EXCEPT !["__id__"] = RefId(1)]>>),
         with_children(group, <<typed(7)>>),
         [f \in DOMAIN circle \ {"__type__"} |-> circle[f]],
         [circle EXCEPT !["__type__"] = "Star"]}

SerialInit ==
    /\ CtxInit
    /\ RenderIdle
    /\ receiver = None
    /\ method = [name |-> "new", args |-> <<>>, n |-> 0]
    /\ returned \in SerialTrees \cup DataInputs

CallSerialize ==
    /\ method.name = "new"
    /\ IsDrawable(returned)
    /\ LibCall(None, "serialize_drawable", <<returned>>, serialize_drawable(returned))

CallDeserialize ==
    /\ \/ method.name = "serialize_drawable"
       \/ method.name = "new" /\ ~IsDrawable(returned)
    /\ LibCall(None, "deserialize_drawable", <<returned>>, deserialize_drawable(returned))

CallDeserializeWithReferences ==
    /\ \/ method.name = "serialize_drawable"
       \/ method.name = "new" /\ ~IsDrawable(returned)
    /\ LibCall(None, "deserialize_with_references", <<returned>>,
               deserialize_with_references(returned))

SerialNext ==
    \/ CallSerialize
    \/ CallDeserialize
    \/ CallDeserializeWithReferences

SpecSerial == SerialInit /\ [][SerialNext]_vars

RECURSIVE FieldValues(_)

\* the class and the field values of an object and of its descendants
FieldValues(obj) ==
    [f \in DOMAIN obj \ {"addr"} |->
        IF f = "children"
        THEN [i \in 1..Len(obj.children) |-> FieldValues(obj.children[i])]
        ELSE obj[f]]

RECURSIVE Objects(_)

\* the objects of a tree, position by position
Objects(obj) ==
    LET below[i \in 0..Len(obj.children)] ==
            IF i = 0 THEN <<>> ELSE below[i - 1] \o Objects(obj.children[i])
    IN  <<obj.addr>> \o below[Len(obj.children)]

NoObjectTwice(obj) ==
    \A i, j \in 1..Len(Objects(obj)) : Objects(obj)[i] = Objects(obj)[j] => i = j

Restores(name) ==
    (method.name = "serialize_drawable" /\ method'.name = name)
        => returned' = FieldValues(method.args[1])

\* C23: deserialize_drawable(serialize_drawable(x)) is an object of the class
\* of x with the field values of x and, recursively, the children of x in
\* their order.
C23_RoundTrip == [][Restores("deserialize_drawable")]_vars

\* the same for every tree in which no object occurs at two positions
C23_RoundTripOfDistinctObjects ==
    [][(method.name = "serialize_drawable" /\ NoObjectTwice(method.args[1]))
            => Restores("deserialize_drawable")]_vars

C23_SharedChildWitness ==
    /\ method.name = "deserialize_drawable"
    /\ \E leaf \in Leaves :
           /\ leaf.addr = 1
           /\ method.args[1] =
                  serialize_drawable(At(0, with_id(Group(Identity, 0, <<leaf, leaf>>), "root")))
    /\ returned = ValidationError

RECURSIVE IdsIn(_)

\* the __id__ values the entries of a dictionary carry
IdsIn(data) ==
    (IF "__id__" \in DOMAIN data THEN {data["__id__"]} ELSE {})
        \cup (IF "children" \in DOMAIN data
              THEN UNION {IdsIn(data.children[i]) : i \in 1..Len(data.children)}
              ELSE {})

RECURSIVE RefsIn(_)

\* the ids the __ref__ entries of a dictionary name
RefsIn(data) ==
    (IF "__ref__" \in DOMAIN data THEN {data["__ref__"]} ELSE {})
        \cup (IF "children" \in DOMAIN data
              THEN UNION {RefsIn(data.children[i]) : i \in 1..Len(data.children)}
              ELSE {})

AsDict(data) == IF is_str(data) THEN loads(data) ELSE data

DanglingRaises ==
    (method.name = "deserialize_with_references"
        /\ RefsIn(AsDict(method.args[1])) \ IdsIn(AsDict(method.args[1])) # {})
        => IsValueError(returned)

\* C24: deserialize_with_references puts, for every __ref__ entry, the object
\* of the entry with that __id__, so what the encoder wrote for a tree with
\* one object at two positions is restored with equal objects at both; a
\* reference to an id no entry carries raises ValueError.
C24_ReferencesResolved ==
    []DanglingRaises /\ [][Restores("deserialize_with_references")]_vars

\* the part on unmatched references alone
C24_DanglingReferenceRaises == DanglingRaises

\* what the encoder writes for a group holding one circle twice
C24_SharedChildWritten ==
    /\ method.name = "deserialize_with_references"
    /\ is_str(method.args[1])
    /\ loads(method.args[1])["__type__"] = "Group"
    /\ Len(loads(method.args[1]).children) = 2
    /\ loads(method.args[1]).children[1]["__id__"] = RefId(1)
    /\ loads(method.args[1]).children[1]["__type__"] = "Circle"
    /\ loads(method.args[1]).children[2] = ("__ref__" :> RefId(1))
    /\ returned = ValidationError

Rendering == status \in {"begun", "running", "unwinding"}

\* C25: at every step of a render() by any renderer, the transform stack and
\* the state stack of its context have the same length.
C25_StacksEqualLength == Rendering => Len(transform_stack) = Len(state_stack)

\* the same for the renderers that keep BaseRenderer.pre_visit
C25_StacksEqualLengthWithoutPreVisit ==
    (Rendering /\ kind # "svg") => Len(transform_stack) = Len(state_stack)

OnlyBaseFrames == Len(transform_stack) = 1 /\ Len(state_stack) = 1

\* render() has returned or raised
RenderOver == status \in {"returned", "raised"}

\* a step in which a visit_* call was made and returned: the visit of a
\* primitive, or of a container that returned before its loop
VisitReturned ==
    /\ status \in {"begun", "running"}
    /\ status' = "running"
    /\ Len(callstack') = Len(callstack)
    /\ calls' # calls

VisitKeepsStacks ==
    VisitReturned => transform_stack' = transform_stack /\ state_stack' = state_stack

\* C26: every visit_* call leaves both context stacks as they were on its
\* entry, so when render() returns or raises both stacks hold only the base
\* frame.
C26_VisitsPopWhatTheyPushed ==
    [](RenderOver => OnlyBaseFrames) /\ [][VisitKeepsStacks]_vars

\* the same for the renderers that keep BaseRenderer.pre_visit
C26_BalancedWithoutPreVisit ==
    [](RenderOver /\ kind # "svg" => OnlyBaseFrames)
        /\ [][kind # "svg" => VisitKeepsStacks]_vars

RECURSIVE Composed(_, _)

\* the local transforms from a node down a path of child positions,
\* composed in that order, each once
Composed(node, path) ==
    IF path = <<>>
    THEN node.transform
    ELSE Mul(node.transform, Composed(node.children[Head(path)], Tail(path)))

\* the elements SVGRenderer wrote for primitives in this render
PrimitiveElements ==
    {i \in 1..Len(output) : output[i].tag \in {"circle", "rect"}}

\* C27: the matrix SVGRenderer writes for a primitive is the composition,
\* from the root down to the primitive, of the local transforms, each taken
\* once.
C27_TransformComposedOnce ==
    kind = "svg" =>
        \A i \in PrimitiveElements : output[i].transform = Composed(root, output[i].path)

\* the same for a primitive rendered on its own by a fresh renderer
C27_OwnTransformOnce ==
    (kind = "svg" /\ renders = 1) =>
        \A i \in PrimitiveElements :
            output[i].path = <<>> => output[i].transform = root.transform

\* a circle in a group scaled by 2 is written with a scale of 8
C27_GroupTransformThrice ==
    /\ kind = "svg"
    /\ renders = 1
    /\ root = Group(Scale(2, 2), 0, <<Circle(Identity, TRUE)>>)
    /\ \E i \in PrimitiveElements :
           output[i].path = <<1>> /\ output[i].transform = Scale(8, 8)

PopAllOrNothing ==
    lastOp'.op = "pop" =>
        IF lastOp'.raised
        THEN transform_stack' = transform_stack /\ state_stack' = state_stack
        ELSE transform_stack' = Front(transform_stack) /\ state_stack' = Front(state_stack)

\* C28: in every state the six operations can reach, pop() either removes one
\* frame from each stack or raises and leaves both stacks as they were.
C28_PopAllOrNothing == [][PopAllOrNothing]_vars

\* the same for the states in which the two stacks have one length
C28_PopAllOrNothingInSync ==
    [][Len(transform_stack) = Len(state_stack) => PopAllOrNothing]_vars

\* pop() raised after it had removed a state
C28_PartialPop ==
    /\ lastOp.op = "pop"
    /\ lastOp.raised
    /\ Len(transform_stack) = 1
    /\ Len(state_stack) = 1

theCtxAfter == Ctx(transform_stack', state_stack')

KeepsOpacity ==
    (lastOp'.op \in {"push", "push_state"} /\ lastOp'.updates.opacity = {})
        => get_effective_opacity(theCtxAfter) = get_effective_opacity(theCtx)

KeepsVisibility ==
    (lastOp'.op \in {"push", "push_state"} /\ lastOp'.updates.visible = {})
        => is_visible(theCtxAfter) = is_visible(theCtx)

\* C29: a push() or push_state() without an opacity leaves
\* get_effective_opacity() as it was, and one without a visible flag leaves
\* is_visible() as it was, whatever frames are on the stack.
C29_NoOverrideNoChange == [][KeepsOpacity /\ KeepsVisibility]_vars

\* the part on is_visible() alone
C29_NoOverrideKeepsVisibility == [][KeepsVisibility]_vars

\* a push() without opacity on top of a frame of opacity 1/2
C29_OpacityCountedAgain ==
    /\ lastOp.op = "push"
    /\ lastOp.updates.opacity = {}
    /\ Len(state_stack) = 3
    /\ state_stack[2].opacity = Half
    /\ get_effective_opacity(theCtx) = Frac(1, 4)

\* BoundingBox.contains_box
contains_box(self, other) ==
    /\ self.x <= other.x
    /\ self.y <= other.y
    /\ self.x + self.width >= other.x + other.width
    /\ self.y + self.height >= other.y + other.height

\* Line.get_bounds of Line(start=start, end=end)
Line_get_bounds(start, end) ==
    LET min_x == Min(start.x, end.x)
        max_x == Max(start.x, end.x)
        min_y == Min(start.y, end.y)
        max_y == Max(start.y, end.y)
    IN  BoundingBox(min_x, min_y, max_x - min_x, max_y - min_y)

UnionContainsBoth ==
    /\ contains_box(returned, receiver)
    /\ contains_box(returned, method.args[1])
    /\ returned = union(method.args[1], receiver)

\* C30: for all boxes a and b, those of zero width or zero height included,
\* a.union(b) contains a and contains b, and is b.union(a).
C30_UnionContainsBoth == method.name = "union" => UnionContainsBoth

\* the same for two boxes of positive width and height
C30_UnionOfNonEmptyContainsBoth ==
    (method.name = "union" /\ NonEmpty(receiver) /\ NonEmpty(method.args[1]))
        => UnionContainsBoth

\* the bounds of a horizontal line are lost in a union
C30_LineBoundsDropped ==
    /\ method.name = "union"
    /\ receiver = Line_get_bounds([x |-> 0, y |-> 1], [x |-> 2, y |-> 1])
    /\ receiver = BoundingBox(0, 1, 2, 0)
    /\ method.args[1] = BoundingBox(0, 0, 1, 1)
    /\ returned = method.args[1]
    /\ ~contains_box(returned, receiver)
====
